---- MODULE Spec2Model ----
(***************************************************************************)
(* Model of the simulation core of bevy_coinfection_demo (src/main.rs):    *)
(* the day clock, the inoculation state machine, the host treatment and    *)
(* prophylaxis policy and the incidence generator, run as Bevy systems of  *)
(* the Update schedule.                                                    *)
(*                                                                         *)
(* Units.  Wall time (Time::delta) is counted in half seconds, the speed   *)
(* multiplier in halves, so the scaled duration handed to Timer::tick is   *)
(* a whole number of quarter seconds.  Day lengths that the code keeps as  *)
(* f32 and converts with `as u32` (treatment_delay, duration_prophylaxis)  *)
(* are counted in tenths of a day.  Dwell times (delay_days) are only ever *)
(* compared with a whole number of elapsed days, so a sample x is kept as  *)
(* the least whole number of days d with d >= x.  Probabilities are in     *)
(* percent, incidence_rate in hundredths per second.                       *)
(***************************************************************************)
EXTENDS Integers, Sequences, FiniteSets, TLC

\* ---------------------------------------------------------------- bounds
\* Number of hosts spawned by setup (host_count is 10 in the source).
NumHosts == 1
\* Inoculation entities that can exist at a time, over all hosts.
MaxInocs == 2
\* Largest Time::delta of one frame, in half seconds.
MaxDelta == 2
\* Last day the clock may reach.
MaxDay == 4
\* Params::duration_liver, in days (7.0 in the source, scaled to the horizon).
duration_liver == 2
\* Number of slider changes made through the controls window in one run.
MaxEdits == 1
\* Params::duration_prophylaxis at start, tenths of a day (14.0 in the source).
ProphylaxisDefault == 20

\* ------------------------------------------------------ program constants
\* Timer::from_seconds(1.0, Repeating): one day per second, in quarter seconds.
TimerDuration == 4
\* Params::default().prob_acute, prob_ac, prob_treatment, percent.
prob_acute == 70
prob_ac == 20
ProbTreatmentDefault == 40
\* Params::default().incidence_rate, hundredths.
IncidenceDefault == 10
\* SimulationSpeed::default().multiplier, halves.
MultiplierDefault == 2

\* The ranges of the four sliders of simulation_controls_ui, in the units of
\* the values they hold: 0.5..=5.0, 0.0..=0.2, 1.0..=30.0, 0.0..=1.0.
SpeedMin == 1
SpeedMax == 10
IncidenceMin == 0
IncidenceMax == 20
ProphylaxisMin == 10
ProphylaxisMax == 300
ProbTreatmentMin == 0
ProbTreatmentMax == 100

\* Uniform::new(10.0, 40.0) and Uniform::new(100.0, 400.0), scaled to the
\* horizon like duration_liver; every sample is a positive number of days.
duration_acute == {1, 2}
duration_chronic == {2, 3}
\* Uniform::new(0.0, 2.0): samples in [0, 2), tenths of a day.
treatment_delay == {0, 6, 15}

\* Values the sliders of simulation_controls_ui can be dragged to.
SpeedChoices == {2, 4}
IncidenceChoices == {0, 10}
ProphylaxisChoices == {15, 20}
ProbTreatmentChoices == {40, 100}
\* Values typed into a slider's number field that lie outside its range:
\* a speed of 0.0 and a treatment probability of 1.5.
SpeedTyped == {0}
ProbTreatmentTyped == {150}

Hosts == 1..NumHosts
Slots == 1..MaxInocs
Systems == {"update_simulation_time", "process_inoculations", "process_hosts",
            "spawn_infections"}

\* Option<u32>::None
None == -1

VARIABLES
    day,          \* SimulationTime.day
    elapsed,      \* SimulationTime.timer elapsed, quarter seconds
    delta,        \* Time::delta of the current frame, half seconds
    multiplier,   \* SimulationSpeed.multiplier, halves
    params,       \* the Params fields the controls can change
    edits,        \* slider changes made so far
    hosts,        \* Host components, by host
    inocs,        \* Inoculation entities, by slot
    cmds,         \* queued despawn commands per slot (Commands are deferred)
    ran,          \* the systems that have run in the current frame
    pc            \* position in the frame

vars == <<day, elapsed, delta, multiplier, params, edits, hosts, inocs, cmds, ran, pc>>

\* ----------------------------------------------------------------- helpers
\* Mutant: conversion to the nearest whole number (f32::round before the cast).
AsU32Rounded(x) == (x + 5) \div 10

\* `x as u32` for a non-negative f32 kept in tenths: truncation.
AsU32(x) == x \div 10

\* rand::random::<f32>() < p/den, random uniform in [0, 1): the outcomes.
RandomLess(p, den) ==
    IF p <= 0 THEN {FALSE} ELSE IF p >= den THEN {TRUE} ELSE BOOLEAN

FreeInoc == [status |-> "free", parent |-> 0, state |-> "E",
             start_day |-> 0, delay_days |-> 0]

\* Host { ..default() }
HostDefault == [on_prophylaxis |-> FALSE, prophylaxis_end_day |-> None,
                treat_request_day |-> None]

\* The Children of a host as the queries see them: spawned, not yet despawned.
Children(ino, h) == {e \in Slots : ino[e].status = "live" /\ ino[e].parent = h}

\* enum HostState { S, E, A, C, P }
HostState == {"S", "E", "A", "C", "P"}

\* Mutant: the chronic flag tested before the acute one.
Host_state_ChronicFirst(host, inoculations, ino) ==
    LET has_acute == \E child \in inoculations : ino[child].state = "A"
        has_chronic == \E child \in inoculations : ino[child].state = "C"
        has_exposed == \E child \in inoculations : ino[child].state = "E"
    IN  IF host.on_prophylaxis THEN "P"
        ELSE IF has_chronic THEN "C"
        ELSE IF has_acute THEN "A"
        ELSE IF has_exposed THEN "E"
        ELSE "S"

\* Host::state: the early return on on_prophylaxis, the three flags raised
\* by the scan of the children, the returns in the order of the source.
\* update_host_sprites paints the result on the host's sprite.
Host_state(host, inoculations, ino) ==
    LET has_acute == \E child \in inoculations : ino[child].state = "A"
        has_chronic == \E child \in inoculations : ino[child].state = "C"
        has_exposed == \E child \in inoculations : ino[child].state = "E"
    IN  IF host.on_prophylaxis THEN "P"
        ELSE IF has_acute THEN "A"
        ELSE IF has_chronic THEN "C"
        ELSE IF has_exposed THEN "E"
        ELSE "S"

\* ------------------------------------------------------------------- clock
\* Timer::tick for a repeating timer followed by the test of just_finished():
\* the elapsed time wraps, the day counter moves once if the timer finished.
Advance(clock, scaled) ==
    LET total == clock.elapsed + scaled
        times_finished_this_tick == total \div TimerDuration
    IN  [day |-> IF times_finished_this_tick > 0 THEN clock.day + 1 ELSE clock.day,
         elapsed |-> total % TimerDuration]

\* time.delta().mul_f32(speed.multiplier), quarter seconds.
Scaled(d, m) == d * m

\* ------------------------------------------------------------------- setup
Init ==
    /\ day = 0
    /\ elapsed = 0
    /\ delta = 0
    /\ multiplier = MultiplierDefault
    /\ params = [incidence_rate |-> IncidenceDefault,
                 duration_prophylaxis |-> ProphylaxisDefault,
                 prob_treatment |-> ProbTreatmentDefault]
    /\ edits = 0
    /\ hosts = [h \in Hosts |-> HostDefault]
    /\ inocs = [e \in Slots |->
                  IF e \in Hosts
                  THEN [status |-> "live", parent |-> e, state |-> "E",
                        start_day |-> 0, delay_days |-> duration_liver]
                  ELSE FreeInoc]
    /\ cmds = [e \in Slots |-> 0]
    /\ ran = {}
    /\ pc = 0

\* --------------------------------------------------------------- the frame
\* The engine's time system: a new frame with its Time::delta.
time_system ==
    /\ pc = 0
    /\ delta' \in 0..MaxDelta
    /\ pc' = 1
    /\ UNCHANGED <<day, elapsed, multiplier, params, edits, hosts, inocs, cmds, ran>>

\* egui::Slider::new(&mut param_value, lo..=hi): the widget leaves in
\* param_value the value it was given, clamped to its range.
Slider(lo, hi, input) == IF input < lo THEN lo ELSE IF input > hi THEN hi ELSE input

\* let mut param_value = stored; ui.add(Slider ..);
\* if response.changed() { stored = param_value }  -- what is stored after.
SliderBlock(stored, lo, hi, input) ==
    LET param_value == Slider(lo, hi, input)
        changed == param_value # stored
    IN  IF changed THEN param_value ELSE stored

\* One slider at most reports response.changed() in a frame; the value the
\* widget leaves is stored as it is.
simulation_controls_ui ==
    /\ pc = 1
    /\ pc' = 2
    /\ \/ UNCHANGED <<multiplier, params, edits>>
       \/ /\ edits < MaxEdits
          /\ edits' = edits + 1
          /\ \/ /\ \E v \in SpeedChoices \cup SpeedTyped :
                      /\ multiplier' = SliderBlock(multiplier, SpeedMin, SpeedMax, v)
                      /\ multiplier' # multiplier
                /\ UNCHANGED params
             \/ /\ \E v \in IncidenceChoices :
                      /\ params' = [params EXCEPT !.incidence_rate =
                                        SliderBlock(@, IncidenceMin, IncidenceMax, v)]
                      /\ params' # params
                /\ UNCHANGED multiplier
             \/ /\ \E v \in ProphylaxisChoices :
                      /\ params' = [params EXCEPT !.duration_prophylaxis =
                                        SliderBlock(@, ProphylaxisMin, ProphylaxisMax, v)]
                      /\ params' # params
                /\ UNCHANGED multiplier
             \/ /\ \E v \in ProbTreatmentChoices \cup ProbTreatmentTyped :
                      /\ params' = [params EXCEPT !.prob_treatment =
                                        SliderBlock(@, ProbTreatmentMin, ProbTreatmentMax, v)]
                      /\ params' # params
                /\ UNCHANGED multiplier
    /\ UNCHANGED <<day, elapsed, delta, hosts, inocs, cmds, ran>>

\* add_systems(Update, (update_simulation_time, process_inoculations,
\* process_hosts)) and add_systems(Update, spawn_infections) state no order
\* between the systems (no .chain(), .before() or .after()): each runs once
\* per frame, at a point of the frame the executor picks.
Turn(sys) == pc = 2 /\ sys \notin ran

update_simulation_time ==
    /\ Turn("update_simulation_time")
    /\ LET next == Advance([day |-> day, elapsed |-> elapsed],
                           Scaled(delta, multiplier))
       IN  /\ next.day <= MaxDay
           /\ day' = next.day
           /\ elapsed' = next.elapsed
    /\ ran' = ran \cup {"update_simulation_time"}
    /\ UNCHANGED <<delta, multiplier, params, edits, hosts, inocs, cmds, pc>>

\* ------------------------------------------------------- transition engine
\* The part of the world the systems write: components and queued commands.
World == [inocs |-> inocs, hosts |-> hosts, cmds |-> cmds]

\* commands.entity(parent).remove_children(&[entity]);
\* commands.entity(entity).despawn();   -- queued, applied at the end of Update
Despawn(w, e) == [w EXCEPT !.cmds[e] = @ + 1]

\* Mutant: the state changes, start_day keeps the day of the previous state.
EnterKeepStart(w, e, s, d) ==
    [w EXCEPT !.inocs[e].state = s, !.inocs[e].delay_days = d]

\* inoc.state = ..; inoc.start_day = sim_time.day; inoc.delay_days = sample
Enter(w, e, s, d) ==
    [w EXCEPT !.inocs[e].state = s,
              !.inocs[e].start_day = day,
              !.inocs[e].delay_days = d]

\* Mutant: the latest request wins.
ScheduleTreatmentLatest(w, p, x) ==
    [w EXCEPT !.hosts[p].treat_request_day = day + AsU32(x)]

\* Mutant: the request dated from the day before the transition.
ScheduleTreatmentBackdated(w, p, x) ==
    LET new_treat_request_day == day - 1 + AsU32(x)
        cur == w.hosts[p].treat_request_day
    IN  IF cur = None \/ new_treat_request_day < cur
        THEN [w EXCEPT !.hosts[p].treat_request_day = new_treat_request_day]
        ELSE w

\* The treatment request of an acute transition: the earlier day wins.
ScheduleTreatment(w, p, x) ==
    LET new_treat_request_day == day + AsU32(x)
        cur == w.hosts[p].treat_request_day
    IN  IF cur = None \/ new_treat_request_day < cur
        THEN [w EXCEPT !.hosts[p].treat_request_day = new_treat_request_day]
        ELSE w

\* The exposed arm past the prophylaxis test: the draw against prob_acute,
\* the new state and, for an acute outcome, the draw against prob_treatment.
ExposedProgress(w, e) ==
    LET p == w.inocs[e].parent
    IN  UNION {
          IF goes_acute
          THEN UNION {
                 LET w1 == Enter(w, e, "A", d)
                 IN  UNION { IF treat
                             THEN {ScheduleTreatment(w1, p, x) : x \in treatment_delay}
                             ELSE {w1}
                             : treat \in RandomLess(params.prob_treatment, 100) }
                 : d \in duration_acute }
          ELSE {Enter(w, e, "C", d) : d \in duration_chronic}
          : goes_acute \in RandomLess(prob_acute, 100) }

\* Mutant: the exposed arm without the test of host.on_prophylaxis.
ExposedArmNoProphylaxis(w, e) == ExposedProgress(w, e)

\* Mutant: an exposed inoculation that stays as it is past its threshold.
ExposedArmStays(w, e) == {w}

\* InfectionState::E if days_elapsed >= inoc.delay_days
ExposedArm(w, e) ==
    IF w.hosts[w.inocs[e].parent].on_prophylaxis
    THEN {Despawn(w, e)}
    ELSE ExposedProgress(w, e)

\* Mutant: an acute inoculation falling back to the exposed state.
AcuteArmRelapse(w, e) == {Enter(w, e, "E", duration_liver)}

\* InfectionState::A if days_elapsed >= inoc.delay_days
AcuteArm(w, e) ==
    UNION { IF goes_chronic
            THEN {Enter(w, e, "C", d) : d \in duration_chronic}
            ELSE {Despawn(w, e)}
            : goes_chronic \in RandomLess(prob_ac, 100) }

\* InfectionState::C if days_elapsed >= inoc.delay_days
ChronicArm(w, e) == {Despawn(w, e)}

\* The body of the loop for one inoculation: the worlds it can leave.
ProcessInoculation(w, e) ==
    LET inoc == w.inocs[e]
        days_elapsed == day - inoc.start_day
    IN  IF inoc.status # "live" \/ days_elapsed < inoc.delay_days
        THEN {w}
        ELSE CASE inoc.state = "E" -> ExposedArm(w, e)
               [] inoc.state = "A" -> AcuteArm(w, e)
               [] inoc.state = "C" -> ChronicArm(w, e)

\* for (entity, mut inoc, parent) in inoc_query.iter_mut()
RECURSIVE IterInoculations(_, _)
IterInoculations(W, e) ==
    IF e \notin Slots THEN W
    ELSE IterInoculations(UNION {ProcessInoculation(w, e) : w \in W}, e + 1)

process_inoculations ==
    /\ Turn("process_inoculations")
    /\ \E w \in IterInoculations({World}, 1) :
          /\ inocs' = w.inocs
          /\ hosts' = w.hosts
          /\ cmds' = w.cmds
    /\ ran' = ran \cup {"process_inoculations"}
    /\ UNCHANGED <<day, elapsed, delta, multiplier, params, edits, pc>>

\* ------------------------------------------- treatment / prophylaxis policy
\* Mutant: treatment that clears the acute inoculations only.
ApplyTreatmentAcuteOnly(w, h) ==
    LET host == w.hosts[h]
    IN  IF host.treat_request_day # None /\ day >= host.treat_request_day
        THEN [w EXCEPT
                !.cmds = [e \in Slots |->
                            IF e \in Children(w.inocs, h) /\ w.inocs[e].state = "A"
                            THEN @[e] + 1 ELSE @[e]],
                !.hosts[h] = [on_prophylaxis |-> TRUE,
                              prophylaxis_end_day |->
                                  day + AsU32(params.duration_prophylaxis),
                              treat_request_day |-> None]]
        ELSE w

\* Mutant: treatment that leaves the request standing.
ApplyTreatmentKeepRequest(w, h) ==
    LET host == w.hosts[h]
    IN  IF host.treat_request_day # None /\ day >= host.treat_request_day
        THEN [w EXCEPT
                !.cmds = [e \in Slots |->
                            IF e \in Children(w.inocs, h) THEN @[e] + 1 ELSE @[e]],
                !.hosts[h] = [on_prophylaxis |-> TRUE,
                              prophylaxis_end_day |->
                                  day + AsU32(params.duration_prophylaxis),
                              treat_request_day |-> host.treat_request_day]]
        ELSE w

\* if let Some(treat_request_day) = .. { if sim_time.day >= treat_request_day
ApplyTreatment(w, h) ==
    LET host == w.hosts[h]
    IN  IF host.treat_request_day # None /\ day >= host.treat_request_day
        THEN [w EXCEPT
                !.cmds = [e \in Slots |->
                            IF e \in Children(w.inocs, h) THEN @[e] + 1 ELSE @[e]],
                !.hosts[h] = [on_prophylaxis |-> TRUE,
                              prophylaxis_end_day |->
                                  day + AsU32(params.duration_prophylaxis),
                              treat_request_day |-> None]]
        ELSE w

\* Mutant: prophylaxis ending one day late (> for >=).
EndProphylaxisLate(w, h) ==
    LET host == w.hosts[h]
    IN  IF host.prophylaxis_end_day # None /\ day > host.prophylaxis_end_day
        THEN [w EXCEPT !.hosts[h].on_prophylaxis = FALSE,
                       !.hosts[h].prophylaxis_end_day = None]
        ELSE w

\* if let Some(prophylaxis_end_day) = .. { if sim_time.day >= prophylaxis_end_day
EndProphylaxis(w, h) ==
    LET host == w.hosts[h]
    IN  IF host.prophylaxis_end_day # None /\ day >= host.prophylaxis_end_day
        THEN [w EXCEPT !.hosts[h].on_prophylaxis = FALSE,
                       !.hosts[h].prophylaxis_end_day = None]
        ELSE w

ProcessHost(w, h) == EndProphylaxis(ApplyTreatment(w, h), h)

\* for (host_entity, mut host, children) in host_query.iter_mut()
RECURSIVE IterHosts(_, _)
IterHosts(w, h) ==
    IF h \notin Hosts THEN w ELSE IterHosts(ProcessHost(w, h), h + 1)

process_hosts ==
    /\ Turn("process_hosts")
    /\ LET w == IterHosts(World, 1)
       IN  /\ inocs' = w.inocs
           /\ hosts' = w.hosts
           /\ cmds' = w.cmds
    /\ ran' = ran \cup {"process_hosts"}
    /\ UNCHANGED <<day, elapsed, delta, multiplier, params, edits, pc>>

\* ------------------------------------------------------ incidence generator
\* Mutant: the draw compared with <= (a draw of 0.0 passes a rate of 0).
SpawnDrawLessEq ==
    IF params.incidence_rate * delta * multiplier >= 400 THEN {TRUE} ELSE BOOLEAN

\* rand::random::<f32>() < incidence_rate * time.delta_seconds() * multiplier
SpawnDraw == RandomLess(params.incidence_rate * delta * multiplier, 400)

\* Mutant: no new inoculation for a host on prophylaxis.
SpawnForUnprotected(ino, h) ==
    LET free == {e \in Slots : ino[e].status = "free"}
        new == CHOOSE e \in free : \A f \in free : e <= f
    IN  UNION { IF hit /\ free # {} /\ ~hosts[h].on_prophylaxis
                THEN {[ino EXCEPT ![new] =
                         [status |-> "reserved", parent |-> h, state |-> "E",
                          start_day |-> day, delay_days |-> duration_liver]]}
                ELSE {ino}
                : hit \in SpawnDraw }

\* The entity reserved by parent.spawn(..): its components arrive when the
\* queued commands are applied.  No spawn once every slot is taken.
SpawnFor(ino, h) ==
    LET free == {e \in Slots : ino[e].status = "free"}
        new == CHOOSE e \in free : \A f \in free : e <= f
    IN  UNION { IF hit /\ free # {}
                THEN {[ino EXCEPT ![new] =
                         [status |-> "reserved", parent |-> h, state |-> "E",
                          start_day |-> day, delay_days |-> duration_liver]]}
                ELSE {ino}
                : hit \in SpawnDraw }

\* for (host_entity, children) in host_query.iter_mut()
RECURSIVE IterSpawn(_, _)
IterSpawn(I, h) ==
    IF h \notin Hosts THEN I
    ELSE IterSpawn(UNION {SpawnFor(ino, h) : ino \in I}, h + 1)

spawn_infections ==
    /\ Turn("spawn_infections")
    /\ inocs' \in IterSpawn({inocs}, 1)
    /\ ran' = ran \cup {"spawn_infections"}
    /\ UNCHANGED <<day, elapsed, delta, multiplier, params, edits, hosts, cmds, pc>>

\* --------------------------------------------------- end of the schedule
\* The queued commands are applied: despawned entities go, spawned ones
\* get their components and join their parent's Children.
AfterCommands(ino, c) ==
    [e \in Slots |->
        IF ino[e].status = "live" /\ c[e] > 0 THEN FreeInoc
        ELSE IF ino[e].status = "reserved" THEN [ino[e] EXCEPT !.status = "live"]
        ELSE ino[e]]

apply_deferred ==
    /\ pc = 2
    /\ ran = Systems
    /\ inocs' = AfterCommands(inocs, cmds)
    /\ cmds' = [e \in Slots |-> 0]
    /\ ran' = {}
    /\ pc' = 0
    /\ UNCHANGED <<day, elapsed, delta, multiplier, params, edits, hosts>>

Next ==
    \/ time_system
    \/ simulation_controls_ui
    \/ update_simulation_time
    \/ process_inoculations
    \/ process_hosts
    \/ spawn_infections
    \/ apply_deferred

Spec == Init /\ [][Next]_vars

\* App::run: frame follows frame, each system of the Update schedule runs in
\* every frame and the frame ends by applying the queued commands: the
\* program never stops while a step of the frame is left to take.
Fairness == WF_vars(Next)

FairSpec == Spec /\ Fairness

\* ================================================================ properties
Live(e) == inocs[e].status = "live"
Elapsed(e) == day - inocs[e].start_day
Due(e) == Elapsed(e) >= inocs[e].delay_days

\* The step in which system sys runs, and the step that applies the commands.
IsStep(sys) == pc = 2 /\ sys \notin ran /\ ran' = ran \cup {sys}
IsApply == pc = 2 /\ ran = Systems /\ pc' = 0

\* Day thresholds crossed by the update of the current frame.
Crossed == (elapsed + Scaled(delta, multiplier)) \div TimerDuration

\* Largest scaled duration one update can be handed, quarter seconds.
MaxScaled == MaxDelta * 4

\* C1: an update whose scaled elapsed time crosses k day thresholds raises
\* day by exactly k; with no threshold crossed day is unchanged.
C1_DayPerBoundary ==
    [][IsStep("update_simulation_time") => day' = day + Crossed]_vars

\* C2: from any clock state, advancing by a and then by b gives the same day
\* and the same accumulator as advancing once by a + b, for positive a, b.
C2_AdvanceAdditive ==
    LET clock == [day |-> day, elapsed |-> elapsed]
    IN  \A a, b \in 1..MaxScaled :
            a + b <= MaxScaled =>
                Advance(Advance(clock, a), b) = Advance(clock, a + b)

\* The lifecycle edges C3 names, and the same with removal of an exposed
\* inoculation added.
NamedEdges == {<<"E", "A">>, <<"E", "C">>, <<"A", "C">>}
SlotStep(e, removable) ==
    CASE inocs[e].status = "free" ->
            \/ inocs'[e] = inocs[e]
            \/ inocs'[e].status = "reserved" /\ inocs'[e].state = "E"
      [] inocs[e].status = "reserved" ->
            \/ inocs'[e] = inocs[e]
            \/ inocs'[e] = [inocs[e] EXCEPT !.status = "live"]
      [] inocs[e].status = "live" ->
            \/ /\ inocs'[e].status = "live"
               /\ \/ inocs'[e].state = inocs[e].state
                  \/ <<inocs[e].state, inocs'[e].state>> \in NamedEdges
            \/ /\ inocs'[e] = FreeInoc
               /\ inocs[e].state \in removable

\* C3 as stated: the only lifecycle steps are E->A, E->C, A->C, A->removed
\* and C->removed.
C3_OnlyNamedEdges == [][\A e \in Slots : SlotStep(e, {"A", "C"})]_vars

\* C3 amended: the only lifecycle steps are E->A, E->C, A->C and the removal
\* of an inoculation in any of the three states; nothing changes on a removed
\* inoculation, and a new one starts Exposed.
C3_EdgesWithExposedRemoval == [][\A e \in Slots : SlotStep(e, {"E", "A", "C"})]_vars

\* An Exposed inoculation whose removal is queued, beside one that changed
\* state on the way.
C3_Witness ==
    \E e, f \in Slots :
        /\ Live(e) /\ inocs[e].state = "E" /\ cmds[e] > 0
        /\ Live(f) /\ inocs[f].state \in {"A", "C"}

HostOf(e) == hosts[inocs[e].parent]

\* C4: while its host is on prophylaxis an Exposed inoculation never becomes
\* Acute or Chronic: at its threshold the transition engine queues its
\* removal, changes nothing of it and schedules no treatment for the host,
\* and the queued removal destroys it.
C4_ProphylaxisSuppresses ==
    [][\A e \in Slots :
          (Live(e) /\ inocs[e].state = "E" /\ HostOf(e).on_prophylaxis) =>
             /\ inocs'[e] \in {inocs[e], FreeInoc}
             /\ (IsStep("process_inoculations") /\ Due(e)) =>
                    /\ inocs'[e] = inocs[e]
                    /\ cmds'[e] = cmds[e] + 1
                    /\ hosts'[inocs[e].parent] = HostOf(e)
             /\ (IsApply /\ cmds[e] > 0) => inocs'[e] = FreeInoc]_vars

\* The transition engine has met a due Exposed inoculation of a host on
\* prophylaxis (the policy has not run in this frame: the removal is the
\* engine's).
C4_Witness ==
    \E e \in Slots :
        /\ Live(e) /\ inocs[e].state = "E" /\ Due(e) /\ cmds[e] = 1
        /\ HostOf(e).on_prophylaxis
        /\ "process_inoculations" \in ran /\ "process_hosts" \notin ran

\* A host whose treatment request is due on the day being processed.
TreatmentDue(h) ==
    hosts[h].treat_request_day # None /\ hosts[h].treat_request_day <= day

\* C5: the policy step, for every host with a due treatment request, queues
\* the removal of every inoculation the host owns whatever its state, sets
\* on_prophylaxis, sets prophylaxis_end_day to day + prophylaxis days (a
\* fractional number of days taken to a whole one less than a day away) and
\* clears the request, in that one step; the queued removals leave the host
\* none of these inoculations.
C5_TreatmentApplied ==
    [][\A h \in Hosts :
          /\ (IsStep("process_hosts") /\ TreatmentDue(h)) =>
                /\ \A e \in Children(inocs, h) : Live(e)' /\ cmds'[e] >= 1
                /\ hosts'[h].on_prophylaxis
                /\ params.duration_prophylaxis % 10 = 0 =>
                       10 * (hosts'[h].prophylaxis_end_day - day)
                           = params.duration_prophylaxis
                /\ LET off == 10 * (hosts'[h].prophylaxis_end_day - day)
                                  - params.duration_prophylaxis
                   IN  -10 < off /\ off < 10
                /\ hosts'[h].treat_request_day = None
          /\ IsApply =>
                \A e \in Children(inocs, h) : cmds[e] >= 1 => ~Live(e)']_vars

\* Scenario B after the policy step: a host treated today (its prophylaxis
\* ends a full default duration from today) and its two inoculations, their
\* removal queued.
C5_Witness ==
    \E h \in Hosts :
        /\ hosts[h].on_prophylaxis
        /\ hosts[h].treat_request_day = None
        /\ 10 * (hosts[h].prophylaxis_end_day - day) = ProphylaxisDefault
        /\ "process_hosts" \in ran
        /\ Cardinality({e \in Children(inocs, h) : cmds[e] >= 1}) = 2

\* The policy applies treatment to host h in this step.
TreatmentStep(h) == IsStep("process_hosts") /\ TreatmentDue(h)

\* C6: a set pending treatment day is never replaced by a later day; it
\* changes only to a strictly earlier day, written by the transition engine,
\* or to unset, and it is unset exactly by the step that applies treatment.
C6_EarliestWins ==
    [][\A h \in Hosts :
          LET old == hosts[h].treat_request_day
              new == hosts'[h].treat_request_day
          IN  /\ (old # None /\ new # old) =>
                    \/ new # None /\ new < old /\ IsStep("process_inoculations")
                    \/ new = None /\ TreatmentStep(h)
              /\ TreatmentStep(h) => new = None]_vars

\* Two triggers on the same day: both inoculations of a host went Acute
\* today and the host's request stands at today.
C6_Witness ==
    \E h \in Hosts :
        /\ hosts[h].treat_request_day = day
        /\ "process_inoculations" \in ran
        /\ Cardinality({e \in Children(inocs, h) :
               inocs[e].state = "A" /\ inocs[e].start_day = day}) = 2

\* C7: for a host on prophylaxis whose prophylaxis_end_day has come, the
\* policy step leaves on_prophylaxis false and prophylaxis_end_day unset.
C7_ProphylaxisExpires ==
    [][\A h \in Hosts :
          (IsStep("process_hosts") /\ hosts[h].on_prophylaxis
              /\ hosts[h].prophylaxis_end_day # None
              /\ day >= hosts[h].prophylaxis_end_day) =>
             /\ ~hosts'[h].on_prophylaxis
             /\ hosts'[h].prophylaxis_end_day = None]_vars

\* The policy has ended a prophylaxis in this frame: the engine, run before
\* it, suppressed a due Exposed inoculation of the host, which was then still
\* on prophylaxis.
C7_Witness ==
    \E e \in Slots :
        /\ Live(e) /\ inocs[e].state = "E" /\ Due(e) /\ cmds[e] = 1
        /\ ~HostOf(e).on_prophylaxis
        /\ HostOf(e).prophylaxis_end_day = None
        /\ "process_inoculations" \in ran /\ "process_hosts" \in ran

\* C8: in a frame with Time::delta = 0 no step changes day, any Inoculation
\* (its state or its being alive) or any Host field.
C8_ZeroDeltaNoOp ==
    [][(pc # 0 /\ delta = 0) =>
          /\ day' = day
          /\ inocs' = inocs
          /\ hosts' = hosts]_vars

C10_NoIncidenceNoSpawn ==
    [][params.incidence_rate = 0 =>
          /\ \A e \in Slots : inocs'[e].status # "reserved"
          /\ \A e \in Slots : Live(e)' => Live(e)]_vars

\* The incidence generator has run in a frame of positive delta with
\* incidence_rate 0 and an entity to spare.
C10_Witness ==
    /\ params.incidence_rate = 0
    /\ delta > 0
    /\ "spawn_infections" \in ran
    /\ \E e \in Slots : inocs[e].status = "free"

\* C11: whenever a host's pending treatment day is set or overwritten, on
\* day d, the value written is >= d (the day does not move in that step, so
\* a set pending treatment day is never before the day of its last write).
C11_RequestNotBeforeWrite ==
    [][\A h \in Hosts :
          LET new == hosts'[h].treat_request_day
          IN  (new # None /\ new # hosts[h].treat_request_day) =>
                 /\ new >= day
                 /\ day' = day]_vars

\* A request written today for tomorrow: an inoculation of the host went
\* Acute in this frame's engine step and the request stands one day ahead.
C11_Witness ==
    \E h \in Hosts :
        /\ hosts[h].treat_request_day = day + 1
        /\ "process_inoculations" \in ran
        /\ "update_simulation_time" \in ran
        /\ \E e \in Children(inocs, h) :
               inocs[e].state = "A" /\ inocs[e].start_day = day

\* The states of the inoculations host h owns.
OwnedStates(h) == {inocs[e].state : e \in Children(inocs, h)}

\* C12: a host's display status depends only on its on_prophylaxis flag and
\* the states of the inoculations it owns, with the fixed priority
\* Prophylaxis > Acute > Chronic > Exposed > Susceptible; a host that owns
\* no inoculation and is not on prophylaxis is Susceptible.
C12_StatusPriority ==
    \A h \in Hosts :
        LET status == Host_state(hosts[h], Children(inocs, h), inocs)
            rank == [s \in HostState |->
                        CASE s = "P" -> 4 [] s = "A" -> 3 [] s = "C" -> 2
                          [] s = "E" -> 1 [] s = "S" -> 0]
            present == (IF hosts[h].on_prophylaxis THEN {"P"} ELSE {})
                           \cup (IF hosts[h].on_prophylaxis THEN {} ELSE OwnedStates(h))
                           \cup {"S"}
        IN  /\ status \in present
            /\ \A s \in present : rank[s] <= rank[status]

\* A host, not on prophylaxis, that owns an Acute and a Chronic inoculation.
C12_Witness ==
    \E h \in Hosts :
        /\ ~hosts[h].on_prophylaxis
        /\ {"A", "C"} \subseteq OwnedStates(h)

\* C13: an update of the parameters with a probability outside [0, 1] or a
\* speed multiplier that is not positive is refused: whatever is stored, the
\* controls leave it unchanged (the value is neither stored nor clamped into
\* the range).
C13_ConfigRejected ==
    /\ \A v \in ProbTreatmentChoices \cup ProbTreatmentTyped :
           (v < 0 \/ v > 100) =>
               SliderBlock(params.prob_treatment, ProbTreatmentMin,
                           ProbTreatmentMax, v) = params.prob_treatment
    /\ \A v \in SpeedChoices \cup SpeedTyped :
           v <= 0 => SliderBlock(multiplier, SpeedMin, SpeedMax, v) = multiplier

\* C14: within every frame the passes run in one order: the clock update
\* first, then the transition engine, then the treatment / prophylaxis
\* policy, then the incidence generator.
C14_FixedOrder ==
    [][/\ IsStep("update_simulation_time") => ran = {}
       /\ IsStep("process_inoculations") => ran = {"update_simulation_time"}
       /\ IsStep("process_hosts") =>
              ran = {"update_simulation_time", "process_inoculations"}
       /\ IsStep("spawn_infections") =>
              ran = Systems \ {"spawn_infections"}]_vars

\* C15: an inoculation whose removal is queued in a frame is not touched
\* again in that frame: no second removal is queued for it and none of its
\* fields changes before the queued commands are applied.
C15_ProcessedOnce ==
    [][\A e \in Slots :
          (Live(e) /\ cmds[e] > 0 /\ ~IsApply) =>
              /\ inocs'[e] = inocs[e]
              /\ cmds'[e] = cmds[e]]_vars

\* Whole days w stand for the fractional number x (tenths) truncated, and
\* for x rounded to nearest.
IsTruncated(w, x) == 10 * w <= x /\ x < 10 * w + 10
IsRounded(w, x) == 10 * w - 5 <= x /\ x < 10 * w + 5

\* The day the engine writes into a host's request in this step, if any.
RequestWritten(h) ==
    /\ IsStep("process_inoculations")
    /\ hosts'[h].treat_request_day # None
    /\ hosts'[h].treat_request_day # hosts[h].treat_request_day

\* C16 as stated: fractional delays are rounded to nearest: a request
\* written on day d is d + round(x) for a sample x of the treatment delay,
\* and treatment applied on day d sets prophylaxis_end_day to
\* d + round(prophylaxis days).
C16_RoundsToNearest ==
    [][\A h \in Hosts :
          /\ RequestWritten(h) =>
                 \E x \in treatment_delay :
                     IsRounded(hosts'[h].treat_request_day - day, x)
          /\ TreatmentStep(h) =>
                 /\ hosts'[h].prophylaxis_end_day # None
                 /\ IsRounded(hosts'[h].prophylaxis_end_day - day,
                              params.duration_prophylaxis)]_vars

\* C16 amended: fractional delays are truncated to whole days: a request
\* written on day d is d + floor(x) for a sample x of the treatment delay,
\* and treatment applied on day d sets prophylaxis_end_day to
\* d + floor(prophylaxis days).
C16_TruncatesToWholeDays ==
    [][\A h \in Hosts :
          /\ RequestWritten(h) =>
                 \E x \in treatment_delay :
                     IsTruncated(hosts'[h].treat_request_day - day, x)
          /\ TreatmentStep(h) =>
                 /\ hosts'[h].prophylaxis_end_day # None
                 /\ IsTruncated(hosts'[h].prophylaxis_end_day - day,
                                params.duration_prophylaxis)]_vars

\* Treatment applied in this frame with the prophylaxis duration at 1.5
\* days: the prophylaxis ends tomorrow.
C16_Witness ==
    \E h \in Hosts :
        /\ params.duration_prophylaxis = 15
        /\ "process_hosts" \in ran
        /\ hosts[h].on_prophylaxis
        /\ hosts[h].treat_request_day = None
        /\ hosts[h].prophylaxis_end_day = day + 1
        /\ \E e \in Children(inocs, h) : cmds[e] >= 1

\* The incidence generator creates an inoculation for host h in this step.
SpawnsFor(h) ==
    /\ spawn_infections
    /\ \E e \in Slots : /\ inocs[e].status = "free"
                        /\ inocs'[e].status = "reserved"
                        /\ inocs'[e].parent = h

\* The generator is about to run with a draw that can succeed and an entity
\* to spare.
CanSpawn ==
    /\ Turn("spawn_infections")
    /\ params.incidence_rate * delta * multiplier > 0
    /\ \E e \in Slots : inocs[e].status = "free"

\* C17: every inoculation the incidence generator creates is owned by the
\* host it was drawn for, Exposed, with start_day the current day and
\* delay_days the liver stage duration, and inoculations are created by the
\* generator only; its step changes no existing inoculation, no host field
\* and queues no removal; and whenever it can create one at all it can
\* create one for every host, on prophylaxis or awaiting treatment or not.
C17_SpawnEffect ==
    /\ [](CanSpawn => \A h \in Hosts : ENABLED SpawnsFor(h))
    /\ [][/\ IsStep("spawn_infections") =>
               /\ hosts' = hosts
               /\ cmds' = cmds
               /\ \A e \in Slots :
                      inocs'[e] # inocs[e] =>
                          /\ inocs[e].status = "free"
                          /\ \E h \in Hosts :
                                 inocs'[e] = [status |-> "reserved", parent |-> h,
                                              state |-> "E", start_day |-> day,
                                              delay_days |-> duration_liver]
           /\ \A e \in Slots :
                  (inocs[e].status = "free" /\ inocs'[e].status # "free") =>
                      IsStep("spawn_infections")]_vars

\* The generator has created an inoculation for a host that is on
\* prophylaxis.
C17_Witness ==
    \E e \in Slots :
        /\ inocs[e].status = "reserved"
        /\ inocs[e].start_day = day
        /\ "spawn_infections" \in ran
        /\ hosts[inocs[e].parent].on_prophylaxis

\* The frame is complete: every system has run and the commands are applied.
TickDone == pc = 0

\* C18: after every completed tick, for every host, on_prophylaxis is true
\* exactly when prophylaxis_end_day is set, and a set prophylaxis_end_day is
\* strictly after the current day.
C18_ProphylaxisWindow ==
    TickDone =>
        \A h \in Hosts :
            /\ hosts[h].on_prophylaxis <=> hosts[h].prophylaxis_end_day # None
            /\ hosts[h].prophylaxis_end_day # None =>
                   hosts[h].prophylaxis_end_day > day

\* C19: after every completed tick a host on prophylaxis owns no Acute and
\* no Chronic inoculation (every inoculation it owns is Exposed) and has no
\* pending treatment day.
C19_ProphylaxisClean ==
    TickDone =>
        \A h \in Hosts :
            hosts[h].on_prophylaxis =>
                /\ OwnedStates(h) \subseteq {"E"}
                /\ hosts[h].treat_request_day = None

\* A completed tick with a host on prophylaxis that owns an inoculation,
\* created after the treatment.
C19_Witness ==
    /\ TickDone
    /\ \E h \in Hosts :
           /\ hosts[h].on_prophylaxis
           /\ \E e \in Children(inocs, h) : inocs[e].state = "E"

\* The stages of an inoculation in the order it passes them.
Stage(e) == CASE inocs[e].state = "E" -> 1
              [] inocs[e].state = "A" -> 2
              [] inocs[e].state = "C" -> 3

\* What a frame owes: an inoculation past its threshold that the engine has
\* not met yet, an inoculation whose removal is queued in a frame whose clock
\* update has run, a treatment request whose day has come before the policy's
\* step of the frame.  Each stays owed until it is met: the day never goes
\* back, a queued removal is only dropped by applying it.
Overdue(e) == Live(e) /\ Due(e) /\ cmds[e] = 0
Condemned(e) == Live(e) /\ cmds[e] > 0 /\ "update_simulation_time" \in ran
RequestOverdue(h) == TreatmentDue(h) /\ "process_hosts" \notin ran
Owed ==
    \/ \E e \in Slots : Overdue(e) \/ Condemned(e)
    \/ \E h \in Hosts : RequestOverdue(h)

====
